---- MODULE Spec2Model ----
(***************************************************************************)
(* Omnivore-to-MD conversion pipeline (lib/converter): downloadImage,      *)
(* processMarkdownImages, convertHtmlToMarkdown and processZipContent.     *)
(*                                                                         *)
(* A JavaScript string is modelled as a sequence of one-character strings, *)
(* so that String.prototype.replace, split, includes and the regular       *)
(* expressions of the source are computed character by character.          *)
(***************************************************************************)
EXTENDS Naturals, Integers, Sequences, FiniteSets, Bags, TLC

----------------------------------------------------------------------------
(* String primitives                                                       *)

Range(s) == {s[i] : i \in 1..Len(s)}

SetMin(S) == CHOOSE m \in S : \A n \in S : m <= n

SetMax(S) == CHOOSE m \in S : \A n \in S : n <= m

\* pat occurs in s starting at index i
StartsWithAt(s, pat, i) ==
    /\ i >= 1
    /\ i + Len(pat) - 1 <= Len(s)
    /\ \A k \in 1..Len(pat) : s[i + k - 1] = pat[k]

\* String.prototype.indexOf(pat, from), 1-based; 0 when there is no occurrence
IndexFrom(s, pat, from) ==
    LET hits == {i \in from..(Len(s) - Len(pat) + 1) : StartsWithAt(s, pat, i)}
    IN  IF hits = {} THEN 0 ELSE SetMin(hits)

IndexOf(s, pat) == IndexFrom(s, pat, 1)

\* String.prototype.includes
Includes(s, pat) == IndexOf(s, pat) # 0

EndsWith(s, suf) == Len(suf) <= Len(s) /\ StartsWithAt(s, suf, Len(s) - Len(suf) + 1)

\* s.replace(/<suf>$/, "")
StripSuffix(s, suf) == IF EndsWith(s, suf) THEN SubSeq(s, 1, Len(s) - Len(suf)) ELSE s

\* s.split(<one of seps>)[0]: the part before the first separator
SplitHead(s, seps) ==
    LET hits == {i \in 1..Len(s) : s[i] \in seps}
    IN  IF hits = {} THEN s ELSE SubSeq(s, 1, SetMin(hits) - 1)

\* s.split(sep).pop(): the part after the last separator
SplitPop(s, sep) ==
    LET hits == {i \in 1..Len(s) : s[i] = sep}
    IN  IF hits = {} THEN s ELSE SubSeq(s, SetMax(hits) + 1, Len(s))

UpperCase == <<"A","B","C","D","E","F","G","H","I","J","K","L","M",
               "N","O","P","Q","R","S","T","U","V","W","X","Y","Z">>

LowerCase == <<"a","b","c","d","e","f","g","h","i","j","k","l","m",
               "n","o","p","q","r","s","t","u","v","w","x","y","z">>

DigitChars == <<"0","1","2","3","4","5","6","7","8","9">>

UpperCaseChars == Range(UpperCase)

LowerOf(c) ==
    IF c \in UpperCaseChars
    THEN LowerCase[CHOOSE i \in 1..26 : UpperCase[i] = c]
    ELSE c

\* String.prototype.toLowerCase
ToLowerCase(s) == [i \in 1..Len(s) |-> LowerOf(s[i])]

\* String(n) for a natural number n
RECURSIVE NumToString(_)
NumToString(n) ==
    IF n < 10 THEN <<DigitChars[n + 1]>>
    ELSE NumToString(n \div 10) \o <<DigitChars[(n % 10) + 1]>>

\* the character class [a-zA-Z0-9-]
SlugChars == Range(UpperCase) \cup Range(LowerCase) \cup Range(DigitChars) \cup {"-"}

IsSlugChar(c) == c \in SlugChars

\* the character class \s and the line terminators that "." does not match
WhiteSpace == {" ", "\t", "\n", "\r"}

LineTerminators == {"\n", "\r"}

----------------------------------------------------------------------------
(* decodeURIComponent                                                      *)

HexChars == <<"0","1","2","3","4","5","6","7","8","9","A","B","C","D","E","F">>

IsHex(c) == ToLowerCase(<<c>>)[1] \in Range(ToLowerCase(HexChars))

HexVal(c) == (CHOOSE i \in 1..16 : ToLowerCase(HexChars)[i] = LowerOf(c)) - 1

\* the printable ASCII characters, code 32 to 126 (code 96, the grave accent,
\* cannot be written in a TLA+ string and is spelled "GRAVE")
AsciiPrintable ==
    <<" ","!","\"","#","$","%","&","'","(",")","*","+",",","-",".","/",
      "0","1","2","3","4","5","6","7","8","9",":",";","<","=",">","?",
      "@","A","B","C","D","E","F","G","H","I","J","K","L","M","N","O",
      "P","Q","R","S","T","U","V","W","X","Y","Z","[","\\","]","^","_",
      "GRAVE","a","b","c","d","e","f","g","h","i","j","k","l","m","n","o",
      "p","q","r","s","t","u","v","w","x","y","z","{","|","}","~">>

CharOfCode(n) == IF n >= 32 /\ n <= 126 THEN AsciiPrintable[n - 31] ELSE "\t"

\* decodeURIComponent throws URIError when a "%" is not followed by two hex
\* digits, or when an escaped byte >= 0x80 does not start a UTF-8 sequence
\* (the escapes of the modelled URLs are single bytes).
UriMalformed(s) ==
    \E i \in 1..Len(s) :
        /\ s[i] = "%"
        /\ ~ ( /\ i + 2 <= Len(s)
               /\ IsHex(s[i + 1])
               /\ IsHex(s[i + 2])
               /\ HexVal(s[i + 1]) < 8 )

RECURSIVE DecodeURIComponent(_)
DecodeURIComponent(s) ==
    IF s = <<>> THEN <<>>
    ELSE IF Head(s) = "%"
         THEN <<CharOfCode(16 * HexVal(s[2]) + HexVal(s[3]))>>
              \o DecodeURIComponent(SubSeq(s, 4, Len(s)))
         ELSE <<Head(s)>> \o DecodeURIComponent(Tail(s))

----------------------------------------------------------------------------
(* String literals of the source                                           *)

PROXY_HOST ==
    <<"p","r","o","x","y","-","p","r","o","d",".","o","m","n","i","v","o","r","e",
      "-","i","m","a","g","e","-","c","a","c","h","e",".","a","p","p">>

HTTP == <<"h","t","t","p">>

SCHEME_SEP == <<":","/","/">>

HTTP_SCHEME == HTTP \o SCHEME_SEP

HTTPS_SCHEME == HTTP \o <<"s">> \o SCHEME_SEP

DOT_MD == <<".","m","d">>

DOT_HTML == <<".","h","t","m","l">>

ATTACHMENTS == <<"a","t","t","a","c","h","m","e","n","t","s","/">>

UNTITLED == <<"u","n","t","i","t","l","e","d">>

THUMBNAIL_SUFFIX == <<"-","t","h","u","m","b","n","a","i","l",".">>

PNG == <<"p","n","g">>

validImageExtensions ==
    { <<"j","p","g">>, <<"j","p","e","g">>, PNG, <<"g","i","f">>,
      <<"w","e","b","p">>, <<"s","v","g">> }

K_SLUG == <<"s","l","u","g">>

K_URL == <<"u","r","l">>

K_THUMBNAIL == <<"t","h","u","m","b","n","a","i","l">>

----------------------------------------------------------------------------
(* Pure functions of the converter                                         *)

NoMatch == [ok |-> FALSE, url |-> <<>>, last |-> 0]

\* the characters that end a run of [^\s)]
UrlStops == WhiteSpace \cup {")"}

\* the end of the greedy run [^\s)]+ that starts at index u (u - 1: empty run)
UrlRunEnd(text, u) ==
    LET stops == {k \in u..Len(text) : text[k] \in UrlStops}
    IN  IF stops = {} THEN Len(text) ELSE SetMin(stops) - 1

\* https?:\/\/ at index h: the index after it, 0 when it does not match
SchemeEnd(text, h) ==
    IF StartsWithAt(text, HTTPS_SCHEME, h) THEN h + Len(HTTPS_SCHEME)
    ELSE IF StartsWithAt(text, HTTP_SCHEME, h) THEN h + Len(HTTP_SCHEME)
    ELSE 0

\* "![" at i, the lazy .*? ending before j, then "](" , the URL and ")"
ImageCloseOk(text, i, j) ==
    /\ StartsWithAt(text, <<"]","(">>, j)
    /\ \A k \in (i + 2)..(j - 1) : text[k] \notin LineTerminators
    /\ SchemeEnd(text, j + 2) # 0
    /\ LET u == SchemeEnd(text, j + 2)
           e == UrlRunEnd(text, u)
       IN  e >= u /\ e + 1 <= Len(text) /\ text[e + 1] = ")"

\* one attempt of imageRegex = /!\[.*?\]\((https?:\/\/[^\s)]+)\)/ at index i
ImageMatchAt(text, i) ==
    IF ~ StartsWithAt(text, <<"!","[">>, i) THEN NoMatch
    ELSE LET js == {j \in (i + 2)..Len(text) : text[j] = "]" /\ ImageCloseOk(text, i, j)}
         IN  IF js = {} THEN NoMatch
             ELSE LET j == SetMin(js)
                      e == UrlRunEnd(text, SchemeEnd(text, j + 2))
                  IN  [ok |-> TRUE, url |-> SubSeq(text, j + 2, e), last |-> e + 1]

\* [...markdown.matchAll(imageRegex)]: the captured group match[1] of every match
RECURSIVE MatchAllFrom(_, _)
MatchAllFrom(text, i) ==
    LET starts == {s \in i..Len(text) : text[s] = "!" /\ ImageMatchAt(text, s).ok}
    IN  IF starts = {} THEN <<>>
        ELSE LET m == ImageMatchAt(text, SetMin(starts))
             IN  <<m.url>> \o MatchAllFrom(text, m.last + 1)

MatchAll(text) == MatchAllFrom(text, 1)

\* imageUrl.split('?')[0]
StripQuery(url) == SplitHead(url, {"?"})

\* the extension taken from the URL, "png" by default
ExtensionOf(url) ==
    IF "." \notin Range(url) THEN PNG
    ELSE LET urlExt == SplitHead(ToLowerCase(SplitPop(url, ".")), {"#", "?"})
         IN  IF urlExt \in validImageExtensions THEN urlExt ELSE PNG

\* baseFilename.replace(/[^a-zA-Z0-9-]/g, '')
CleanBasename(baseFilename) == SelectSeq(baseFilename, IsSlugChar)

ThumbnailFilename(baseFilename, thumbnailUrl) ==
    baseFilename \o THUMBNAIL_SUFFIX \o ExtensionOf(thumbnailUrl)

BodyImageFilename(baseFilename, imageCounter, imageUrl) ==
    CleanBasename(baseFilename) \o <<"-">> \o NumToString(imageCounter)
        \o <<".">> \o ExtensionOf(imageUrl)

\* `./attachments/${filename}`
LocalPath(filename) == <<".", "/">> \o ATTACHMENTS \o filename

\* newMarkdown.replace(match[1], replacement): the first literal occurrence only
StringReplace(s, pat, rep) ==
    LET i == IndexOf(s, pat)
    IN  IF i = 0 THEN s
        ELSE SubSeq(s, 1, i - 1) \o rep \o SubSeq(s, i + Len(pat), Len(s))

PROXY_PREFIX == HTTP \o <<"s">> \o SCHEME_SEP \o PROXY_HOST \o <<"/">>

\* the "/" positions at which /.*?\/(https?.*)/ can continue after a prefix at p
ProxySlashes(url, p) ==
    {k \in (p + Len(PROXY_PREFIX))..Len(url) :
        /\ url[k] = "/"
        /\ StartsWithAt(url, HTTP, k + 1)
        /\ \A n \in (p + Len(PROXY_PREFIX))..(k - 1) : url[n] \notin LineTerminators}

\* url.match(/https:\/\/proxy-prod\.omnivore-image-cache\.app\/.*?\/(https?.*)/)
\* matches[1], or the empty string when there is no match
ExtractOriginal(url) ==
    LET starts == {p \in 1..Len(url) :
                      StartsWithAt(url, PROXY_PREFIX, p) /\ ProxySlashes(url, p) # {}}
    IN  IF starts = {} THEN <<>>
        ELSE LET k    == SetMin(ProxySlashes(url, SetMin(starts)))
                 rest == SubSeq(url, k + 1, Len(url))
             IN  SplitHead(rest, LineTerminators)

----------------------------------------------------------------------------
(* Metadata records: a JavaScript object is its list of entries, in        *)
(* insertion order, as Object.entries returns them                         *)

MetaHas(m, key) == \E i \in 1..Len(m) : m[i].key = key

MetaGet(m, key) == m[CHOOSE i \in 1..Len(m) : m[i].key = key].value

MetaSet(m, key, value) ==
    IF MetaHas(m, key)
    THEN [i \in 1..Len(m) |-> IF m[i].key = key THEN [key |-> key, value |-> value] ELSE m[i]]
    ELSE Append(m, [key |-> key, value |-> value])

\* metadata?.thumbnail is truthy: present and not the empty string
HasThumbnail(m) == MetaHas(m, K_THUMBNAIL) /\ MetaGet(m, K_THUMBNAIL) # <<>>

\* Object.entries(metadata).map(([key, value]) => `${key}: "${value}"`).join("\n")
RECURSIVE YamlFrontMatter(_)
YamlFrontMatter(m) ==
    IF m = <<>> THEN <<>>
    ELSE LET line == m[1].key \o <<":", " ", "\"">> \o m[1].value \o <<"\"">>
         IN  IF Len(m) = 1 THEN line
             ELSE line \o <<"\n">> \o YamlFrontMatter(Tail(m))

\* `---\n${yamlFrontMatter}\n---\n\n${markdown}`
WithFrontMatter(m, markdown) ==
    <<"-","-","-","\n">> \o YamlFrontMatter(m) \o <<"\n","-","-","-","\n","\n">> \o markdown

----------------------------------------------------------------------------
(* JavaScript objects used as maps: the list of entries in insertion order *)

ObjHas(obj, key) == \E i \in 1..Len(obj) : obj[i].key = key

ObjGet(obj, key) == obj[CHOOSE i \in 1..Len(obj) : obj[i].key = key].value

\* obj[key] = value: an existing key keeps its position and takes the new value
ObjSet(obj, key, value) ==
    IF ObjHas(obj, key)
    THEN [i \in 1..Len(obj) |-> IF obj[i].key = key THEN [key |-> key, value |-> value] ELSE obj[i]]
    ELSE Append(obj, [key |-> key, value |-> value])

\* Object.assign(target, source)
RECURSIVE ObjectAssign(_, _)
ObjectAssign(target, source) ==
    IF source = <<>> THEN target
    ELSE ObjectAssign(ObjSet(target, source[1].key, source[1].value), Tail(source))

----------------------------------------------------------------------------
(* downloadImage                                                           *)

\* what the network does to one attempt: an HTTP success status with a
\* readable body, a non-success status, a fetch that throws (network error
\* or the abort of fetchWithTimeout), a body whose read throws
NetOutcomes == {"ok", "status", "error", "body"}

\* the ArrayBuffer a server returns for a URL
BytesAt(url) == [from |-> url]

NoBuffer == [from |-> <<>>]

\* downloadImage(url) up to its first await
NewFetch(kind, match, url, filename) ==
    [ kind        |-> kind,
      match       |-> match,
      url         |-> url,
      filename    |-> filename,
      stage       |-> IF Includes(url, PROXY_HOST) THEN "proxy" ELSE "direct",
      originalUrl |-> <<>>,
      outcome     |-> "pending",
      buffer      |-> NoBuffer,
      message     |-> "",
      promise     |-> "pending",
      attempts    |-> <<>> ]

AttemptUrl(f) == IF f.stage = "original" THEN f.originalUrl ELSE f.url

AfterProxy_SkipOriginal(f) == [f EXCEPT !.stage = "direct"]

\* the continuation of downloadImage after a proxy attempt that did not return
AfterProxy(f) ==
    LET matches == ExtractOriginal(f.url)
    IN  IF matches # <<>>
        THEN IF UriMalformed(matches)
             THEN [f EXCEPT !.stage = "settled", !.outcome = "rejected",
                            !.message = "URI malformed"]
             ELSE [f EXCEPT !.stage = "original",
                            !.originalUrl = DecodeURIComponent(matches)]
        ELSE [f EXCEPT !.stage = "direct"]

\* downloadImage from the completion of the attempt in flight to its next
\* await or to its return
DownloadStep(f, net) ==
    LET g == [f EXCEPT !.attempts =
                 Append(@, [url |-> AttemptUrl(f), stage |-> f.stage, net |-> net])]
    IN  IF net = "ok"
        THEN [g EXCEPT !.stage = "settled", !.outcome = "data",
                       !.buffer = BytesAt(AttemptUrl(f))]
        ELSE CASE f.stage = "proxy"    -> AfterProxy(g)
               [] f.stage = "original" -> [g EXCEPT !.stage = "direct"]
               [] OTHER                -> [g EXCEPT !.stage = "settled", !.outcome = "null"]

\* the processLog events of one attempt
AttemptLogs(f, net) ==
    LET info == [type |-> "info", msg |-> "Successfully downloaded image",
                 stage |-> f.stage, arg |-> AttemptUrl(f)]
        fail == [type |-> IF f.stage = "direct" THEN "error" ELSE "warning",
                 msg |-> "Failed to download", stage |-> f.stage, arg |-> AttemptUrl(f)]
    IN  CASE net = "ok"     -> <<info>>
          [] net = "body"   -> <<info, fail>>
          [] net = "error"  -> <<fail>>
          [] OTHER          -> <<>>

----------------------------------------------------------------------------
(* Inputs                                                                  *)

\* the size of a batch: its HTML inputs plus the network attempts that their
\* images can take
MaxBatch == 5

U_1 == HTTP \o SCHEME_SEP \o <<"i","/","1">>

U_2 == HTTP \o SCHEME_SEP \o <<"i","/","2">>

\* a URL with an extension and a query, of which U_1 is a prefix
U_1_JPG == U_1 \o <<".","J","P","G","?","w","=","2">>

\* a proxy URL that embeds an encoded original URL
U_PROXY == PROXY_PREFIX \o <<"x","/">> \o HTTP \o <<"%","3","A","%","2","F","%","2","F","o",".","j","p","g">>

\* a proxy URL whose embedded original URL holds a "%" that starts no escape
U_PROXY_PCT == PROXY_PREFIX \o <<"x","/">> \o HTTP \o SCHEME_SEP \o <<"o","/","5","0","%",".","j","p","g">>

ImageRef(url) == <<"!","[","]","(">> \o url \o <<")">>

\* the Markdown that createMarkdownContent returns for each HTML body
Pages ==
    [ none     |-> <<"t","e","x","t">>,
      one      |-> ImageRef(U_1),
      other    |-> ImageRef(U_2),
      twice    |-> ImageRef(U_1) \o <<"\n">> \o ImageRef(U_1),
      prefix   |-> ImageRef(U_1_JPG) \o <<" ">> \o ImageRef(U_1),
      proxy    |-> ImageRef(U_PROXY),
      proxypct |-> ImageRef(U_PROXY_PCT) ]

HtmlBodies == DOMAIN Pages

\* Markdown Transformer (lib/markdown-converter)
createMarkdownContent(htmlContent, url) == Pages[htmlContent]

KEY_AB == <<"c","/","a","b",".","h","t","m","l">>

KEY_A_B == <<"c","/","a","_","b",".","h","t","m","l">>

KEY_AB_2 == <<"c","/","d","/","a","b",".","h","t","m","l">>

HtmlKeys == {KEY_AB, KEY_A_B, KEY_AB_2}

SLUG_AB == <<"a","b">>

SLUG_A_B == <<"a","_","b">>

ArticleUrl(slug) == HTTP \o SCHEME_SEP \o <<"s","/">> \o slug

MetaRecord(slug, thumbnail) ==
    <<[key |-> K_SLUG, value |-> slug], [key |-> K_URL, value |-> ArticleUrl(slug)]>>
    \o (IF thumbnail = <<>> THEN <<>> ELSE <<[key |-> K_THUMBNAIL, value |-> thumbnail]>>)

\* no thumbnail, or one whose URL has an extension and a query
Thumbnails == {<<>>, U_1_JPG}

\* the metadata lists: a record for slug "ab", with or without a thumbnail,
\* and possibly a record for slug "a_b"
MetadataLists ==
    {<<MetaRecord(SLUG_AB, t)>> \o rest :
        t \in Thumbnails, rest \in {<<>>, <<MetaRecord(SLUG_A_B, <<>>)>>}}

HtmlEntries == [key : HtmlKeys, content : HtmlBodies]

\* the network attempts downloadImage can make for a URL
AttemptsFor(url) ==
    IF ~ Includes(url, PROXY_HOST) THEN 1
    ELSE IF ExtractOriginal(url) = <<>> THEN 2
    ELSE IF UriMalformed(ExtractOriginal(url)) THEN 1
    ELSE 3

RECURSIVE SumAttempts(_)
SumAttempts(urls) ==
    IF urls = <<>> THEN 0 ELSE AttemptsFor(StripQuery(urls[1])) + SumAttempts(Tail(urls))

\* the attempts of a batch: those of the references of every body, and of
\* the thumbnail of every entry whose slug has a record with one
RECURSIVE AttemptCount(_, _)
AttemptCount(fs, metas) ==
    IF fs = <<>> THEN 0
    ELSE LET slug == StripSuffix(SplitPop(fs[1].key, "/"), DOT_HTML)
             thumbs == {i \in 1..Len(metas) :
                          MetaGet(metas[i], K_SLUG) = slug /\ MetaHas(metas[i], K_THUMBNAIL)}
         IN  SumAttempts(MatchAll(Pages[fs[1].content]))
                + (IF thumbs = {} THEN 0
                   ELSE AttemptsFor(MetaGet(metas[SetMin(thumbs)], K_THUMBNAIL)))
                + AttemptCount(Tail(fs), metas)

\* htmlFiles as Object.entries lists it: distinct keys, in insertion order
HtmlFileLists ==
    UNION {{fs \in [1..n -> HtmlEntries] :
               \A i, j \in 1..n : i # j => fs[i].key # fs[j].key} : n \in 1..Cardinality(HtmlKeys)}

----------------------------------------------------------------------------
(* State                                                                   *)

VARIABLES
    htmlFiles,   \* the entries of the htmlFiles argument
    metadata,    \* the metadata argument: a list of records, mutated in place
    pc,          \* processZipContent: "loop", "converting", "done", "rejected"
    idx,         \* the entry of htmlFiles the for loop is at
    conv,        \* per entry of htmlFiles: the state of its convertHtmlToMarkdown call
    results,     \* processZipContent: results
    allImages,   \* processZipContent: allImages
    failures,    \* processZipContent: failures, mdFile -> the entry whose list it holds
    logs,        \* the processLog events emitted so far (a bag)
    app          \* App.svelte: the component's state and the run of handleFileUpload

vars == <<htmlFiles, metadata, pc, idx, conv, results, allImages, failures, logs, app>>

Idle ==
    [ status      |-> "idle",
      slug        |-> <<>>,
      mdFilename  |-> <<>>,
      meta        |-> 0,
      markdown0   |-> <<>>,
      newMarkdown |-> <<>>,
      images      |-> <<>>,
      failures    |-> <<>>,
      completed   |-> 0,
      total       |-> 0,
      fetches     |-> <<>>,
      progress    |-> <<>>,
      events      |-> <<>>,
      markdown    |-> <<>> ]

RECURSIVE Emit(_, _)
Emit(bag, entries) ==
    IF entries = <<>> THEN bag
    ELSE Emit(bag (+) SetToBag({Head(entries)}), Tail(entries))

Log(type, msg, arg) == [type |-> type, msg |-> msg, stage |-> "", arg |-> arg]

\* the archive of an export: its metadata_*.json (absent, not JSON, or a
\* list of records), and its content folder with the HTML files
Archive(metadataFile, records, contentFolder, html) ==
    [metadataFile |-> metadataFile, records |-> records,
     contentFolder |-> contentFolder, html |-> html]

NoArchive == Archive("absent", <<>>, FALSE, <<>>)

\* the state of the component: the declarations of App.svelte
AppState(at, zip) ==
    [ pc               |-> at,
      zip              |-> zip,
      isProcessing     |-> FALSE,
      showUploadPanel  |-> TRUE,
      downloadUrl      |-> "null",
      downloadFailures |-> <<>>,
      processLogs      |-> <<>>,
      outputZip        |-> <<>>,
      packaged         |-> FALSE ]

\* processZipContent called by itself, without the component
NoApp == AppState("none", NoArchive)

Init ==
    /\ app = NoApp
    /\ htmlFiles \in HtmlFileLists
    /\ metadata \in MetadataLists
    /\ Len(htmlFiles) + AttemptCount(htmlFiles, metadata) <= MaxBatch
    /\ pc = "loop"
    /\ idx = 1
    /\ conv = [a \in 1..Len(htmlFiles) |-> Idle]
    /\ results = <<>>
    /\ allImages = <<>>
    /\ failures = <<>>
    /\ logs = Emit(EmptyBag, <<Log("info", "Starting to process files", Len(htmlFiles))>>)

----------------------------------------------------------------------------
(* processZipContent: the head of one loop iteration                       *)

\* filename.split("/").pop() || filename, then .replace(/\.html$/, "")
SlugOf(filename) ==
    LET popped       == SplitPop(filename, "/")
        baseFilename == IF popped = <<>> THEN filename ELSE popped
    IN  StripSuffix(baseFilename, DOT_HTML)

\* a lookup that falls back to the first record when no slug matches
FindMetadata_Fallback(metas, slug) ==
    LET hits == {i \in 1..Len(metas) : MetaHas(metas[i], K_SLUG) /\ MetaGet(metas[i], K_SLUG) = slug}
    IN  IF hits = {} THEN 1 ELSE SetMin(hits)

\* metadata.find((m) => m.slug === slug): the index of the record, 0 for undefined
FindMetadata(metas, slug) ==
    LET hits == {i \in 1..Len(metas) : MetaHas(metas[i], K_SLUG) /\ MetaGet(metas[i], K_SLUG) = slug}
    IN  IF hits = {} THEN 0 ELSE SetMin(hits)

\* no metadata: warn and continue
SkipArticle ==
    /\ pc = "loop"
    /\ idx <= Len(htmlFiles)
    /\ LET filename == htmlFiles[idx].key
           slug     == SlugOf(filename)
       IN  /\ FindMetadata(metadata, slug) = 0
           /\ logs' = Emit(logs, <<Log("info", "Processing file", slug \o DOT_MD),
                                   Log("warning", "No metadata found for", filename)>>)
    /\ idx' = idx + 1
    /\ UNCHANGED <<htmlFiles, metadata, pc, conv, results, allImages, failures, app>>

\* the article's URL taken for a missing thumbnail
Dispatch_UrlAsThumbnail(markdown, mdFilename, meta) ==
    LET matches      == MatchAll(markdown)
        baseFilename == StripSuffix(mdFilename, DOT_MD)
        thumbnailUrl == IF HasThumbnail(meta) THEN MetaGet(meta, K_THUMBNAIL)
                        ELSE MetaGet(meta, K_URL)
    IN  <<NewFetch("thumbnail", thumbnailUrl, thumbnailUrl,
                   ThumbnailFilename(baseFilename, thumbnailUrl))>>
        \o [k \in 1..Len(matches) |->
               NewFetch("body", matches[k], StripQuery(matches[k]),
                        BodyImageFilename(baseFilename, k, StripQuery(matches[k])))]

\* processMarkdownImages up to `await Promise.all(imagePromises)`: every
\* fetch of the article is dispatched
Dispatch(markdown, mdFilename, meta) ==
    LET matches      == MatchAll(markdown)
        baseFilename == StripSuffix(mdFilename, DOT_MD)
        thumbnailUrl == MetaGet(meta, K_THUMBNAIL)
        thumb == IF HasThumbnail(meta)
                 THEN <<NewFetch("thumbnail", thumbnailUrl, thumbnailUrl,
                                 ThumbnailFilename(baseFilename, thumbnailUrl))>>
                 ELSE <<>>
        body  == [k \in 1..Len(matches) |->
                     NewFetch("body", matches[k], StripQuery(matches[k]),
                              BodyImageFilename(baseFilename, k, StripQuery(matches[k])))]
    IN  thumb \o body

\* the fetch started before the callback reports its image
DispatchEvents_FetchFirst(fetches) ==
    [n \in 1..(2 * Len(fetches)) |->
        [op  |-> IF n % 2 = 1 THEN "downloadImage" ELSE "progressCallback",
         url |-> fetches[(n + 1) \div 2].url]]

\* the calls processMarkdownImages makes while it dispatches the fetches, in
\* order: for each image, progressCallback({currentImage}) and then
\* downloadImage(url)
DispatchEvents(fetches) ==
    [n \in 1..(2 * Len(fetches)) |->
        [op  |-> IF n % 2 = 1 THEN "progressCallback" ELSE "downloadImage",
         url |-> fetches[(n + 1) \div 2].url]]

\* convertHtmlToMarkdown up to the await of processMarkdownImages
BeginConvert(htmlContent, meta, mi) ==
    LET slug       == MetaGet(meta, K_SLUG)
        markdown   == WithFrontMatter(meta, createMarkdownContent(htmlContent, MetaGet(meta, K_URL)))
        mdFilename == (IF slug = <<>> THEN UNTITLED ELSE slug) \o DOT_MD
        fetches    == Dispatch(markdown, mdFilename, meta)
    IN  [ Idle EXCEPT !.status = "running", !.slug = slug, !.mdFilename = mdFilename,
                      !.meta = mi, !.markdown0 = markdown, !.newMarkdown = markdown,
                      !.total = Len(fetches), !.fetches = fetches,
                      !.events = DispatchEvents(fetches) ]

StartArticle ==
    /\ pc = "loop"
    /\ idx <= Len(htmlFiles)
    /\ LET filename == htmlFiles[idx].key
           slug     == SlugOf(filename)
           mi       == FindMetadata(metadata, slug)
       IN  /\ mi # 0
           /\ conv' = [conv EXCEPT ![idx] = BeginConvert(htmlFiles[idx].content, metadata[mi], mi)]
           /\ logs' = Emit(logs, <<Log("info", "Processing file", slug \o DOT_MD),
                                   Log("info", "Starting conversion for URL", MetaGet(metadata[mi], K_URL)),
                                   Log("info", "Added YAML front matter for", slug)>>)
    /\ pc' = "converting"
    /\ UNCHANGED <<htmlFiles, metadata, idx, results, allImages, failures, app>>

----------------------------------------------------------------------------
(* processMarkdownImages: the completion handlers                          *)

DownloadFailure(f, error) == [url |-> f.url, filename |-> f.filename, error |-> error]

\* a null result that is counted and recorded nowhere
ThenHandler_DropNull(c, f) ==
    LET stored == IF f.outcome = "data"
                  THEN [c EXCEPT !.images = ObjSet(@, f.filename, f.buffer),
                                 !.newMarkdown =
                                     IF f.kind = "body"
                                     THEN StringReplace(@, f.match, LocalPath(f.filename))
                                     ELSE @]
                  ELSE c
    IN  [stored EXCEPT !.completed = @ + 1,
                       !.progress = Append(@, [completed |-> c.completed + 1, total |-> c.total])]

\* .then((buffer) => ...) of fetch f, settled with a buffer or with null
ThenHandler(c, f) ==
    LET stored == IF f.outcome = "data"
                  THEN [c EXCEPT !.images = ObjSet(@, f.filename, f.buffer),
                                 !.newMarkdown =
                                     IF f.kind = "body"
                                     THEN StringReplace(@, f.match, LocalPath(f.filename))
                                     ELSE @]
                  ELSE [c EXCEPT !.failures = Append(@, DownloadFailure(f, "Download failed"))]
    IN  [stored EXCEPT !.completed = @ + 1,
                       !.progress = Append(@, [completed |-> c.completed + 1, total |-> c.total])]

\* .catch((error) => ...) of fetch f, whose downloadImage rejected
CatchHandler(c, f) ==
    [c EXCEPT !.failures = Append(@, DownloadFailure(f, f.message)),
              !.completed = @ + 1]

\* the promise chain without its .catch: a rejection of downloadImage stays
ChainedPromise_NoCatch(f) == IF f.outcome = "rejected" THEN "rejected" ELSE "fulfilled"

\* the state of the promise downloadImage(...).then(...).catch(...)
ChainedPromise(f) == "fulfilled"

\* metadata.thumbnail = `./attachments/${filename}` in the thumbnail's handler
ThumbnailRewrite(meta, f) ==
    IF f.kind = "thumbnail" /\ f.outcome = "data"
    THEN MetaSet(meta, K_THUMBNAIL, LocalPath(f.filename))
    ELSE meta

\* one attempt of fetch i of entry a completes; when downloadImage settles
\* with it, the fetch's handler runs
AttemptCompletes(a, i, net) ==
    /\ conv[a].status # "idle"
    /\ conv[a].fetches[i].stage \notin {"settled", "stalled"}
    /\ LET c == conv[a]
           f == DownloadStep(c.fetches[i], net)
           g == IF f.stage = "settled" THEN [f EXCEPT !.promise = ChainedPromise(f)] ELSE f
           d == [c EXCEPT !.fetches[i] = g]
       IN  /\ conv' = [conv EXCEPT ![a] =
                          IF f.stage # "settled" THEN d
                          ELSE IF f.outcome = "rejected" THEN CatchHandler(d, g)
                          ELSE ThenHandler(d, g)]
           /\ metadata' = IF f.stage = "settled"
                          THEN [metadata EXCEPT ![c.meta] = ThumbnailRewrite(@, f)]
                          ELSE metadata
           /\ logs' = Emit(logs, AttemptLogs(c.fetches[i], net))
    /\ UNCHANGED <<htmlFiles, pc, idx, results, allImages, failures, app>>

\* fetchWithTimeout clears its timer as soon as fetch resolves with the
\* response, so nothing bounds `await response.arrayBuffer()`: the server of
\* the attempt of fetch i of entry a answers with a success status and never
\* finishes the body, and downloadImage stays at that await
BodyNeverArrives(a, i) ==
    /\ conv[a].status # "idle"
    /\ conv[a].fetches[i].stage \notin {"settled", "stalled"}
    /\ LET f == conv[a].fetches[i]
       IN  /\ conv' = [conv EXCEPT ![a].fetches[i] =
                          [f EXCEPT !.stage = "stalled",
                                    !.attempts = Append(@, [url |-> AttemptUrl(f),
                                                            stage |-> f.stage,
                                                            net |-> "stall"])]]
           /\ logs' = Emit(logs, AttemptLogs(f, "ok"))
    /\ UNCHANGED <<htmlFiles, metadata, pc, idx, results, allImages, failures, app>>

----------------------------------------------------------------------------
(* The return of convertHtmlToMarkdown and the rest of the loop iteration  *)

\* a return that does not await the promises
PromiseAllSettled_NoAwait(fetches) == TRUE

\* Promise.race in the place of Promise.all: the first promise to settle decides
PromiseAllSettled_Race(fetches) ==
    \/ fetches = <<>>
    \/ \E i \in 1..Len(fetches) : fetches[i].promise # "pending"

\* Promise.all(imagePromises) has settled: every promise fulfilled, or one rejected
PromiseAllSettled(fetches) ==
    \/ \A i \in 1..Len(fetches) : fetches[i].promise = "fulfilled"
    \/ \E i \in 1..Len(fetches) : fetches[i].promise = "rejected"

PromiseAllRejected(fetches) == \E i \in 1..Len(fetches) : fetches[i].promise = "rejected"

\* an entry recorded for every converted article, whatever its list holds
RecordFailures_Always(all, mdFilename, a, fileFailures) == ObjSet(all, mdFilename, a)

\* failures[mdFilename] = fileFailures, when the list is not empty
RecordFailures(all, mdFilename, a, fileFailures) ==
    IF Len(fileFailures) > 0 THEN ObjSet(all, mdFilename, a) ELSE all

\* a merge that appends the entries instead of assigning them by key
MergeImages_Concat(all, images) == all \o images

\* Object.assign(allImages, images)
MergeImages(all, images) == ObjectAssign(all, images)

ReturnArticle ==
    /\ pc = "converting"
    /\ PromiseAllSettled(conv[idx].fetches)
    /\ IF PromiseAllRejected(conv[idx].fetches)
       THEN /\ pc' = "rejected"
            /\ UNCHANGED <<conv, idx, results, allImages, failures, logs>>
       ELSE LET c          == conv[idx]
                mdFilename == SlugOf(htmlFiles[idx].key) \o DOT_MD
            IN  /\ pc' = "loop"
                /\ conv' = [conv EXCEPT ![idx].status = "returned",
                                        ![idx].markdown = c.newMarkdown]
                /\ failures' = RecordFailures(failures, mdFilename, idx, c.failures)
                /\ allImages' = MergeImages(allImages, c.images)
                /\ results' = Append(results, [filename |-> mdFilename,
                                               content  |-> c.newMarkdown,
                                               binary   |-> FALSE,
                                               article  |-> idx])
                /\ logs' = Emit(logs,
                       <<Log("info", "Completed conversion for URL", MetaGet(metadata[c.meta], K_URL))>>
                       \o (IF Len(c.failures) > 0
                           THEN <<Log("warning", "image download failures in", mdFilename)>>
                           ELSE <<>>)
                       \o <<Log("info", "Successfully processed", mdFilename)>>)
                /\ idx' = idx + 1
    /\ UNCHANGED <<htmlFiles, metadata, app>>

\* Object.entries(allImages).forEach(... results.push ...)
ImageResults(all) ==
    [k \in 1..Len(all) |-> [filename |-> ATTACHMENTS \o all[k].key,
                            content  |-> all[k].value,
                            binary   |-> TRUE,
                            article  |-> 0]]

Finish ==
    /\ pc = "loop"
    /\ idx > Len(htmlFiles)
    /\ results' = results \o ImageResults(allImages)
    /\ logs' = Emit(logs, <<Log("info", "Completed processing all files", Len(allImages))>>)
    /\ pc' = "done"
    /\ UNCHANGED <<htmlFiles, metadata, idx, conv, allImages, failures, app>>

Next ==
    \/ SkipArticle
    \/ StartArticle
    \/ \E a \in 1..Len(htmlFiles) :
          \E i \in 1..Len(conv[a].fetches) :
             \E net \in NetOutcomes : AttemptCompletes(a, i, net)
    \/ ReturnArticle
    \/ Finish

Spec == Init /\ [][Next]_vars

\* the run with servers that may never finish a body
NextStalling ==
    \/ Next
    \/ \E a \in 1..Len(htmlFiles) :
          \E i \in 1..Len(conv[a].fetches) : BodyNeverArrives(a, i)

\* the guard of StartArticle
CanStartArticle ==
    /\ pc = "loop"
    /\ idx <= Len(htmlFiles)
    /\ FindMetadata(metadata, SlugOf(htmlFiles[idx].key)) # 0

\* the guard of ReturnArticle
CanReturnArticle == pc = "converting" /\ PromiseAllSettled(conv[idx].fetches)

\* the guard of AttemptCompletes and of BodyNeverArrives, for some fetch
AttemptInFlight ==
    \E a \in 1..Len(htmlFiles) :
        /\ conv[a].status # "idle"
        /\ \E i \in 1..Len(conv[a].fetches) :
               conv[a].fetches[i].stage \notin {"settled", "stalled"}

\* the event loop runs every continuation that is ready, and every attempt in
\* flight is answered, aborted by its timer, or left at the read of its body.
\* The last three conjuncts are the weak fairness of StartArticle, of
\* ReturnArticle and of the completion of an attempt: each of these steps
\* happens finitely often in a batch, so weak fairness says that its guard
\* is false infinitely often
Fairness ==
    /\ WF_vars(SkipArticle)
    /\ WF_vars(Finish)
    /\ []<>(~ CanStartArticle)
    /\ []<>(~ CanReturnArticle)
    /\ []<>(~ AttemptInFlight)

StallingSpec == Init /\ [][NextStalling]_vars /\ Fairness

----------------------------------------------------------------------------
(* App.svelte: handleFileUpload                                             *)

\* the archives a user can upload
Archives ==
    {Archive("parsed", md, TRUE, hf) : md \in MetadataLists, hf \in HtmlFileLists \cup {<<>>}}
    \cup {Archive("parsed", md, FALSE, <<>>) : md \in MetadataLists}
    \cup {Archive(mf, <<>>, TRUE, hf) : mf \in {"absent", "unparseable"}, hf \in HtmlFileLists}
    \cup {Archive(mf, <<>>, FALSE, <<>>) : mf \in {"absent", "unparseable"}}

AppInit ==
    /\ \E zip \in Archives :
          /\ Len(zip.html) + AttemptCount(zip.html, zip.records) <= MaxBatch
          /\ app = AppState("idle", zip)
    /\ htmlFiles = <<>>
    /\ metadata = <<>>
    /\ pc = "idle"
    /\ idx = 1
    /\ conv = <<>>
    /\ results = <<>>
    /\ allImages = <<>>
    /\ failures = <<>>
    /\ logs = EmptyBag

addLog(processLogs, type, message) == Append(processLogs, [type |-> type, message |-> message])

\* catch (error) { addLog('error', ...) } finally { isProcessing = false; addLog(...) }
CatchFinally(a, message) ==
    [a EXCEPT !.pc = "ended",
              !.isProcessing = FALSE,
              !.processLogs = addLog(addLog(a.processLogs, "error", "Error processing files: " \o message),
                                     "info", "Processing completed")]

\* JSZip's folder(name): the folder is created when the archive has none, and
\* an object rooted at it is returned in both cases
Folder(zip) == [present |-> TRUE, files |-> IF zip.contentFolder THEN zip.html ELSE <<>>]

\* handleFileUpload up to `await JSZip.loadAsync`
HandleFileUpload ==
    /\ app.pc = "idle"
    /\ app' = [app EXCEPT !.pc = "loading",
                          !.isProcessing = TRUE,
                          !.showUploadPanel = FALSE,
                          !.downloadUrl = "null",
                          !.processLogs = addLog(<<>>, "info", "Starting file processing...")]
    /\ UNCHANGED <<htmlFiles, metadata, pc, idx, conv, results, allImages, failures, logs>>

\* from the loaded archive to the read of the metadata file
ZipLoaded ==
    /\ app.pc = "loading"
    /\ LET loaded == [app EXCEPT !.processLogs = addLog(@, "info", "ZIP file loaded successfully")]
       IN  app' = IF app.zip.metadataFile = "absent"
                  THEN CatchFinally([loaded EXCEPT !.processLogs =
                                        addLog(@, "error", "Metadata file not found")],
                                    "Metadata file not found")
                  ELSE [loaded EXCEPT !.pc = "metadata"]
    /\ UNCHANGED <<htmlFiles, metadata, pc, idx, conv, results, allImages, failures, logs>>

\* JSON.parse of the metadata, the read of the HTML files of the content
\* folder, and the call of processZipContent up to its first await
MetadataRead ==
    /\ app.pc = "metadata"
    /\ LET contentFolder == Folder(app.zip)
       IN  IF app.zip.metadataFile = "unparseable"
           THEN /\ app' = CatchFinally(app, "Unexpected token")
                /\ UNCHANGED <<htmlFiles, metadata, pc, idx, conv, results, allImages, failures, logs>>
           ELSE IF ~ contentFolder.present
           THEN /\ app' = CatchFinally(app, "Content folder not found")
                /\ UNCHANGED <<htmlFiles, metadata, pc, idx, conv, results, allImages, failures, logs>>
           ELSE /\ app' = [app EXCEPT !.pc = "converting"]
                /\ htmlFiles' = contentFolder.files
                /\ metadata' = app.zip.records
                /\ pc' = "loop"
                /\ idx' = 1
                /\ conv' = [a \in 1..Len(contentFolder.files) |-> Idle]
                /\ logs' = Emit(logs, <<Log("info", "Starting to process files",
                                            Len(contentFolder.files))>>)
                /\ UNCHANGED <<results, allImages, failures>>

\* from the return of processZipContent to the end of handleFileUpload
ProcessZipContentSettled ==
    /\ app.pc = "converting"
    /\ pc \in {"done", "rejected"}
    /\ app' = IF pc = "rejected"
              THEN CatchFinally(app, "URI malformed")
              ELSE [app EXCEPT !.pc = "ended",
                               !.downloadFailures = failures,
                               !.outputZip = results,
                               !.packaged = TRUE,
                               !.downloadUrl = "blob",
                               !.isProcessing = FALSE,
                               !.processLogs = addLog(@, "info", "Processing completed")]
    /\ UNCHANGED <<htmlFiles, metadata, pc, idx, conv, results, allImages, failures, logs>>

\* the Cancel button, rendered while isProcessing and downloadUrl is null:
\* handleCancel resets the component; the run of handleFileUpload goes on
HandleCancel ==
    /\ app.isProcessing
    /\ app.downloadUrl = "null"
    /\ app' = [app EXCEPT !.isProcessing = FALSE,
                          !.showUploadPanel = TRUE,
                          !.downloadUrl = "null",
                          !.processLogs = <<>>]
    /\ UNCHANGED <<htmlFiles, metadata, pc, idx, conv, results, allImages, failures, logs>>

AppNext ==
    \/ HandleFileUpload
    \/ HandleCancel
    \/ ZipLoaded
    \/ MetadataRead
    \/ ProcessZipContentSettled
    \/ Next

AppSpec == AppInit /\ [][AppNext]_vars

----------------------------------------------------------------------------
(* Vocabulary of the properties                                            *)

Articles == 1..Len(htmlFiles)

FetchesOf(a) == 1..Len(conv[a].fetches)

BodyFetches(a) == {i \in FetchesOf(a) : conv[a].fetches[i].kind = "body"}

Failed(f) == f.outcome \in {"null", "rejected"}

InFlight(a) == {i \in FetchesOf(a) : conv[a].fetches[i].stage # "settled"}

\* convertHtmlToMarkdown has just returned for entry a: the loop has not yet
\* gone on to the next entry
JustReturned(a) == pc = "loop" /\ idx = a + 1 /\ conv[a].status = "returned"

\* the targets of the image references ![alt](target) of a text, in order,
\* whatever the target's scheme
RefCloseOk(text, i, j) ==
    /\ StartsWithAt(text, <<"]","(">>, j)
    /\ \A k \in (i + 2)..(j - 1) : text[k] \notin LineTerminators
    /\ LET e == UrlRunEnd(text, j + 2)
       IN  e >= j + 2 /\ e + 1 <= Len(text) /\ text[e + 1] = ")"

RefMatchAt(text, i) ==
    IF ~ StartsWithAt(text, <<"!","[">>, i) THEN NoMatch
    ELSE LET js == {j \in (i + 2)..Len(text) : text[j] = "]" /\ RefCloseOk(text, i, j)}
         IN  IF js = {} THEN NoMatch
             ELSE LET j == SetMin(js)
                      e == UrlRunEnd(text, j + 2)
                  IN  [ok |-> TRUE, url |-> SubSeq(text, j + 2, e), last |-> e + 1]

RECURSIVE RefsFrom(_, _)
RefsFrom(text, i) ==
    LET starts == {s \in i..Len(text) : text[s] = "!" /\ RefMatchAt(text, s).ok}
    IN  IF starts = {} THEN <<>>
        ELSE LET m == RefMatchAt(text, SetMin(starts))
             IN  <<m.url>> \o RefsFrom(text, m.last + 1)

ImageTargets(text) == RefsFrom(text, 1)

\* the target that body fetch i's own reference holds in a text of entry a
OwnTarget(a, i, text) ==
    LET k == Cardinality({j \in BodyFetches(a) : j <= i})
    IN  ImageTargets(text)[k]

FailuresFor(a, f) ==
    {n \in 1..Len(conv[a].failures) : conv[a].failures[n].filename = f.filename}

----------------------------------------------------------------------------
(* Properties                                                              *)

\* C1: after convertHtmlToMarkdown returns, every body image reference whose
\* fetch succeeded holds ./attachments/{the filename derived for it} in the
\* returned Markdown, whatever the text and the order of completion.
C1_SucceededReferenceRewritten ==
    \A a \in Articles :
        JustReturned(a) =>
            \A i \in BodyFetches(a) :
                conv[a].fetches[i].outcome = "data" =>
                    OwnTarget(a, i, conv[a].markdown) = LocalPath(conv[a].fetches[i].filename)

\* C2: after convertHtmlToMarkdown returns, an image whose fetch failed keeps
\* its original URL in its own reference (the thumbnail: in metadata.thumbnail),
\* has no entry in images, and has exactly one DownloadFailure.
C2_FailedImageUntouched ==
    \A a \in Articles :
        JustReturned(a) =>
            \A i \in FetchesOf(a) :
                LET f == conv[a].fetches[i]
                IN  Failed(f) =>
                        /\ IF f.kind = "body"
                           THEN OwnTarget(a, i, conv[a].markdown) = f.match
                           ELSE MetaGet(metadata[conv[a].meta], K_THUMBNAIL) = f.match
                        /\ ~ ObjHas(conv[a].images, f.filename)
                        /\ Cardinality(FailuresFor(a, f)) = 1
                        /\ \A n \in FailuresFor(a, f) : conv[a].failures[n].url = f.url

\* C3: when convertHtmlToMarkdown returns, every fetch it dispatched has
\* settled, and no completion handler changes the returned markdown, images
\* or failures afterwards.
C3_SettledAtReturn ==
    [][\A a \in Articles :
          /\ conv'[a].status = "returned" =>
                \A i \in 1..Len(conv'[a].fetches) : conv'[a].fetches[i].stage = "settled"
          /\ conv[a].status = "returned" =>
                /\ conv'[a].markdown = conv[a].markdown
                /\ conv'[a].images = conv[a].images
                /\ conv'[a].failures = conv[a].failures]_vars

\* a conversion has returned after two fetches, one that obtained data and
\* one that failed
C3_Witness ==
    \E a \in Articles :
        /\ conv[a].status = "returned"
        /\ \E i, j \in FetchesOf(a) :
              conv[a].fetches[i].outcome = "data" /\ Failed(conv[a].fetches[j])

\* the images of an entry: the references of its Markdown and its thumbnail
ImageCountOf(a) ==
    Len(ImageTargets(conv[a].markdown0))
        + (IF HasThumbnail(metadata[conv[a].meta]) THEN 1 ELSE 0)

\* C4: articles are converted in input order, and at every moment all the
\* fetches in flight belong to the one article being converted and are at
\* most as many as its images.
C4_OneArticleAtATime ==
    \A a \in Articles :
        /\ conv[a].status # "idle" => a <= idx
        /\ a < idx => conv[a].status \in {"idle", "returned"}
        /\ InFlight(a) # {} =>
              /\ pc = "converting"
              /\ a = idx
              /\ Cardinality(InFlight(a)) <= ImageCountOf(a)

\* the second article has a fetch in flight after the first one returned
\* with a fetch of its own
C4_Witness ==
    /\ Len(htmlFiles) = 2
    /\ conv[1].status = "returned"
    /\ conv[1].fetches # <<>>
    /\ InFlight(2) # {}

\* C5: downloadImage never rejects: it resolves to binary data or to null.
C5_DownloadImageNeverRejects ==
    \A a \in Articles :
        \A i \in FetchesOf(a) : conv[a].fetches[i].outcome # "rejected"

\* C6: when downloadImage rejects for one image, exactly one DownloadFailure
\* with the error's message is recorded for it, its siblings reach their own
\* outcome (image entry or failure), and the conversion and the batch resolve.
C6_RejectionIsContained ==
    \A a \in Articles :
        \A i \in FetchesOf(a) :
            LET f == conv[a].fetches[i]
            IN  f.outcome = "rejected" =>
                    /\ Cardinality(FailuresFor(a, f)) = 1
                    /\ \A n \in FailuresFor(a, f) :
                          conv[a].failures[n].error = f.message /\ f.message # ""
                    /\ pc # "rejected"
                    /\ (pc = "converting" /\ idx = a /\ InFlight(a) = {}) =>
                          (PromiseAllSettled(conv[a].fetches) /\ ~ PromiseAllRejected(conv[a].fetches))
                    /\ \A j \in FetchesOf(a) \ {i} :
                          LET g == conv[a].fetches[j]
                          IN  /\ conv[a].status = "returned" => g.stage = "settled"
                              /\ g.outcome = "data" =>
                                    (ObjHas(conv[a].images, g.filename)
                                        /\ ObjGet(conv[a].images, g.filename) = g.buffer)
                              /\ g.outcome = "null" => Cardinality(FailuresFor(a, g)) = 1

\* the batch has resolved although one fetch rejected, and a sibling of that
\* fetch obtained its image
C6_Witness ==
    /\ pc = "done"
    /\ \E a \in Articles :
          \E i, j \in FetchesOf(a) :
              /\ conv[a].fetches[i].outcome = "rejected"
              /\ conv[a].fetches[j].outcome = "data"
              /\ ObjHas(conv[a].images, conv[a].fetches[j].filename)

\* the slug of entry a matches no metadata record
Orphan(a) ==
    \A n \in 1..Len(metadata) : MetaGet(metadata[n], K_SLUG) # SlugOf(htmlFiles[a].key)

\* C7: an HTML input whose slug matches no metadata record gets no Markdown
\* result, no image, no failures entry and no fetch, exactly one warning log,
\* and the remaining inputs are processed.
C7_OrphanSkipped ==
    \A a \in Articles :
        Orphan(a) =>
            /\ conv[a] = Idle
            /\ \A r \in 1..Len(results) :
                  results[r].article # a /\ results[r].filename # SlugOf(htmlFiles[a].key) \o DOT_MD
            /\ ~ ObjHas(failures, SlugOf(htmlFiles[a].key) \o DOT_MD)
            /\ CopiesIn(Log("warning", "No metadata found for", htmlFiles[a].key), logs)
                  = (IF idx > a THEN 1 ELSE 0)
            /\ pc # "rejected"
            /\ pc = "done" =>
                  \A b \in Articles \ {a} :
                      ~ Orphan(b) =>
                          /\ conv[b].status = "returned"
                          /\ \E r \in 1..Len(results) : results[r].article = b

\* the batch has resolved with an orphan input skipped and a later input
\* converted
C7_Witness ==
    /\ pc = "done"
    /\ \E a, b \in Articles :
          /\ Orphan(a)
          /\ a < b
          /\ conv[b].status = "returned"
          /\ conv[b].fetches # <<>>

\* C8 as stated: the filenames of the results of a batch are pairwise distinct.
C8_ResultFilenamesDistinct ==
    pc = "done" =>
        \A r, q \in 1..Len(results) : r # q => results[r].filename # results[q].filename

DistinctSlugs ==
    \A a, b \in Articles :
        a # b => SlugOf(htmlFiles[a].key) # SlugOf(htmlFiles[b].key)

\* C8 amended: when the HTML inputs have pairwise distinct slugs, the
\* filenames of the results of the batch are pairwise distinct.
C8_ResultFilenamesDistinctForDistinctSlugs ==
    (pc = "done" /\ DistinctSlugs) =>
        \A r, q \in 1..Len(results) : r # q => results[r].filename # results[q].filename

\* a batch of inputs with distinct slugs has resolved, and two of its
\* articles produced an image under the same filename
C8_Witness ==
    /\ pc = "done"
    /\ DistinctSlugs
    /\ \E a, b \in Articles :
          /\ a # b
          /\ \E k \in 1..Len(conv[a].images) : ObjHas(conv[b].images, conv[a].images[k].key)

\* C9: image filenames derived for two articles with distinct slugs never
\* coincide, the filenames of one article's own images are pairwise distinct,
\* and so no article's image entry shares its key with another article's.
C9_FilenamesNeverCoincide ==
    \A a \in Articles :
        /\ \A i, j \in FetchesOf(a) :
              i # j => conv[a].fetches[i].filename # conv[a].fetches[j].filename
        /\ \A b \in Articles :
              conv[a].status # "idle" /\ conv[b].status # "idle" /\ conv[a].slug # conv[b].slug =>
                  /\ \A i \in FetchesOf(a) : \A j \in FetchesOf(b) :
                        conv[a].fetches[i].filename # conv[b].fetches[j].filename
                  /\ \A k \in 1..Len(conv[a].images) :
                        ~ ObjHas(conv[b].images, conv[a].images[k].key)

\* the results that carry the image file of a derived filename
AttachmentResults(filename) ==
    {r \in 1..Len(results) : results[r].filename = ATTACHMENTS \o filename}

\* C10: in the output of processZipContent, every reference
\* ./attachments/{name} written into a Markdown result has exactly one binary
\* result attachments/{name}, whose content is the bytes fetched for the image
\* whose reference was rewritten.
C10_ReferenceHasItsBytes ==
    pc = "done" =>
        \A a \in Articles :
            \A i \in BodyFetches(a) :
                LET f == conv[a].fetches[i]
                IN  (f.outcome = "data" /\ Includes(conv[a].markdown, LocalPath(f.filename))) =>
                        /\ Cardinality(AttachmentResults(f.filename)) = 1
                        /\ \A r \in AttachmentResults(f.filename) :
                              results[r].binary /\ results[r].content = f.buffer

\* the key of the failures mapping for entry a
FailuresKey(a) == SlugOf(htmlFiles[a].key) \o DOT_MD

\* the failures mapping holds, under the key of entry a, exactly the list of a
\* when a was converted with at least one failure, and nothing otherwise
FailuresEntryExact(a) ==
    IF conv[a].status = "returned" /\ Len(conv[a].failures) > 0
    THEN /\ ObjHas(failures, FailuresKey(a))
         /\ conv[ObjGet(failures, FailuresKey(a))].failures = conv[a].failures
    ELSE ~ ObjHas(failures, FailuresKey(a))

\* C11 as stated: on return of processZipContent, failures has the key
\* {slug}.md exactly for the converted articles with at least one
\* DownloadFailure, holding that article's list; an article without failures
\* and a skipped article have no entry.
C11_FailuresExactlyPerArticle ==
    pc = "done" => \A a \in Articles : FailuresEntryExact(a)

\* C11 amended: the same, for batches whose HTML inputs have pairwise
\* distinct slugs.
C11_FailuresExactlyPerArticleForDistinctSlugs ==
    (pc = "done" /\ DistinctSlugs) => \A a \in Articles : FailuresEntryExact(a)

\* a batch of inputs with distinct slugs has resolved: one article is recorded
\* with its failures, and another was converted without any
C11_Witness ==
    /\ pc = "done"
    /\ DistinctSlugs
    /\ \E a, b \in Articles :
          /\ conv[a].status = "returned" /\ Len(conv[a].failures) > 0
          /\ ObjHas(failures, FailuresKey(a))
          /\ conv[b].status = "returned" /\ conv[b].fetches # <<>> /\ conv[b].failures = <<>>

\* the filenames convertHtmlToMarkdown derived in the call for entry a
DerivedFilenames(a) == {conv[a].fetches[i].filename : i \in FetchesOf(a)}

AllSucceeded(a) ==
    /\ conv[a].status = "returned"
    /\ \A i \in FetchesOf(a) : conv[a].fetches[i].outcome = "data"

\* C12: two successive calls of convertHtmlToMarkdown with the same HTML body,
\* the same URL and the same metadata record, every fetch succeeding in both,
\* return the same Markdown text and derive the same set of image filenames.
C12_SecondCallSameResult ==
    \A a, b \in Articles :
        (/\ a < b
         /\ AllSucceeded(a) /\ AllSucceeded(b)
         /\ htmlFiles[a].content = htmlFiles[b].content
         /\ conv[a].meta = conv[b].meta)
        => /\ conv[a].markdown = conv[b].markdown
           /\ DerivedFilenames(a) = DerivedFilenames(b)

Returned == {a \in Articles : conv[a].status = "returned"}

\* the orders in which the for loop can come to the converted entries
Orderings ==
    {p \in [1..Cardinality(Returned) -> Returned] :
        \A i, j \in DOMAIN p : i # j => p[i] # p[j]}

\* allImages after the loop has merged the images of the entries in order p
RECURSIVE AllImagesIn(_, _)
AllImagesIn(all, p) ==
    IF p = <<>> THEN all
    ELSE AllImagesIn(MergeImages(all, conv[Head(p)].images), Tail(p))

\* C13: processZipContent yields the same image mapping (filename to bytes)
\* whatever the order of the keys of htmlFiles: with every entry converting
\* to the same Markdown and images (distinct slugs, so no two entries share a
\* metadata record or a result filename), merging the entries' images in any
\* other order gives the mapping the call returned.
C13_ImageMappingOrderIndependent ==
    (pc = "done" /\ DistinctSlugs) =>
        \A p \in Orderings : Range(AllImagesIn(<<>>, p)) = Range(allImages)

\* the first attempt of downloadImage(url): stage and URL
FirstAttempt(url) ==
    [stage |-> IF Includes(url, PROXY_HOST) THEN "proxy" ELSE "direct", url |-> url]

\* the attempt that follows a proxy attempt that did not return
AttemptAfterProxy(url) ==
    IF ExtractOriginal(url) # <<>> /\ ~ UriMalformed(ExtractOriginal(url))
    THEN [stage |-> "original", url |-> DecodeURIComponent(ExtractOriginal(url))]
    ELSE [stage |-> "direct", url |-> url]

\* the attempts of fetch f so far follow the order proxy, original, direct
AttemptsInOrder(f) ==
    /\ Len(f.attempts) <= 3
    /\ f.stage = "settled" => f.attempts # <<>>
    /\ \A n \in 1..Len(f.attempts) :
           LET planned == IF n = 1 THEN FirstAttempt(f.url)
                          ELSE IF f.attempts[n - 1].stage = "proxy" THEN AttemptAfterProxy(f.url)
                          ELSE [stage |-> "direct", url |-> f.url]
           IN  /\ n > 1 => f.attempts[n - 1].stage # "direct"
               /\ f.attempts[n].stage = planned.stage
               /\ f.attempts[n].url = planned.url
    /\ f.outcome = "null" => f.attempts[Len(f.attempts)].stage = "direct"

\* the attempts that ended the call of fetch f with their response's body
Returning(f, statuses) ==
    \A n \in 1..Len(f.attempts) :
        f.attempts[n].net \in statuses =>
            /\ n = Len(f.attempts)
            /\ f.stage = "settled"
            /\ f.outcome = "data"
            /\ f.buffer = BytesAt(f.attempts[n].url)

SuccessLog(att) ==
    [type |-> "info", msg |-> "Successfully downloaded image", stage |-> att.stage, arg |-> att.url]

FailureLog(att) ==
    [type |-> IF att.stage = "direct" THEN "error" ELSE "warning",
     msg |-> "Failed to download", stage |-> att.stage, arg |-> att.url]

\* C15: every attempt of downloadImage that fails (network error, timeout or
\* non-success HTTP status) has emitted a warning log, or an error log for the
\* final attempt, naming its URL, every attempt that succeeded has emitted an
\* info log, and so every null result comes with a warning or error log.
C15_EveryFailedAttemptLogged ==
    \A a \in Articles : \A i \in FetchesOf(a) :
        LET f == conv[a].fetches[i]
        IN  /\ \A n \in 1..Len(f.attempts) :
                   /\ f.attempts[n].net \in {"error", "status", "body"} =>
                          BagIn(FailureLog(f.attempts[n]), logs)
                   /\ f.attempts[n].net \in {"ok", "body"} =>
                          BagIn(SuccessLog(f.attempts[n]), logs)
            /\ f.outcome = "null" =>
                   \E n \in 1..Len(f.attempts) : BagIn(FailureLog(f.attempts[n]), logs)

\* C16: every attempt is bounded by the timeout, so that every call of
\* downloadImage, of convertHtmlToMarkdown and of processZipContent eventually
\* returns, even when a server never finishes answering.
C16_EveryCallReturns == <>(pc \in {"done", "rejected"})

Settled(a) == {i \in FetchesOf(a) : conv[a].fetches[i].stage = "settled"}

\* C17: within one article every fetch that settles (with data, with null or
\* rejected) has incremented completed once and emitted one
\* imageDownloadProgress event with the value completed / total, where total
\* is the number of body images plus one for a thumbnail; completed never
\* exceeds total and equals total when the converter returns.
C17_OneProgressEventPerSettledFetch ==
    \A a \in Articles :
        LET c == conv[a]
        IN  c.status # "idle" =>
               /\ c.total = Len(MatchAll(c.markdown0))
                               + (IF \E i \in FetchesOf(a) : c.fetches[i].kind = "thumbnail"
                                  THEN 1 ELSE 0)
               /\ c.completed = Cardinality(Settled(a))
               /\ Len(c.progress) = Cardinality(Settled(a))
               /\ \A n \in 1..Len(c.progress) :
                      c.progress[n] = [completed |-> n, total |-> c.total]
               /\ c.completed <= c.total
               /\ c.status = "returned" => c.completed = c.total

\* C18: every URL handed to downloadImage, for a body image and for the
\* thumbnail alike, has had everything from its first "?" stripped.
C18_QueryStripped ==
    \A a \in Articles : \A i \in FetchesOf(a) :
        LET f == conv[a].fetches[i]
        IN  /\ f.url = StripQuery(f.match)
            /\ ~ Includes(f.url, <<"?">>)
            /\ \A n \in 1..Len(f.attempts) :
                   f.attempts[n].stage \in {"proxy", "direct"} => f.attempts[n].url = StripQuery(f.match)

\* an article without an image reference in its Markdown and without a
\* thumbnail in its metadata record
NoImages(a) ==
    /\ conv[a].status # "idle"
    /\ ~ HasThumbnail(metadata[conv[a].meta])
    /\ ~ \E s \in 1..Len(conv[a].markdown0) :
            conv[a].markdown0[s] = "!" /\ RefMatchAt(conv[a].markdown0, s).ok

\* C20: an article with no image reference and no thumbnail starts no fetch,
\* emits no progress event (total is 0 and nothing is divided by it) and
\* yields an empty image mapping and an empty failure list.
C20_NoImagesNoFetch ==
    \A a \in Articles :
        NoImages(a) =>
            /\ conv[a].total = 0
            /\ conv[a].completed = 0
            /\ conv[a].fetches = <<>>
            /\ conv[a].progress = <<>>
            /\ conv[a].images = <<>>
            /\ conv[a].failures = <<>>
            /\ conv[a].status = "returned" => conv[a].markdown = conv[a].markdown0

\* such an article has been converted and has its result
C20_Witness ==
    \E a \in Articles :
        /\ NoImages(a)
        /\ conv[a].status = "returned"
        /\ \E r \in 1..Len(results) : results[r].article = a /\ results[r].content = conv[a].markdown0

\* an archive without a metadata file, with metadata that is not JSON, or
\* without a content folder
Unusable(zip) == zip.metadataFile \in {"absent", "unparseable"} \/ ~ zip.contentFolder

HasErrorLog ==
    \/ \E n \in 1..Len(app.processLogs) : app.processLogs[n].type = "error"
    \/ \E l \in BagToSet(logs) : l.type = "error"

\* C19: a run of handleFileUpload on a structurally unusable archive ends
\* with an error log, nothing packaged, downloadUrl null and isProcessing
\* false; a run on a usable archive ends with downloadUrl set and the
\* failures of processZipContent reported.
C19_UnusableInputFailsRun ==
    app.pc = "ended" =>
        /\ ~ app.isProcessing
        /\ IF Unusable(app.zip)
           THEN /\ HasErrorLog
                /\ ~ app.packaged
                /\ app.downloadUrl = "null"
           ELSE /\ app.downloadUrl # "null"
                /\ app.packaged
                /\ app.downloadFailures = failures

\* processMarkdownImages of entry a with the completion handlers of its
\* fetches run in the order of dispatch, every fetch settling as it did
RECURSIVE HandlersFrom(_, _, _)
HandlersFrom(c, fetches, i) ==
    IF i > Len(fetches) THEN c
    ELSE HandlersFrom(IF fetches[i].outcome = "rejected"
                      THEN CatchHandler(c, fetches[i])
                      ELSE ThenHandler(c, fetches[i]),
                      fetches, i + 1)

InDispatchOrder(a) ==
    HandlersFrom([conv[a] EXCEPT !.newMarkdown = conv[a].markdown0,
                                 !.images = <<>>, !.failures = <<>>,
                                 !.completed = 0, !.progress = <<>>],
                 conv[a].fetches, 1)

\* C21: the Markdown text, the image mapping and the set of failure records
\* that processMarkdownImages returns do not depend on the order in which the
\* article's fetches complete: they are those of the completion in the order
\* of dispatch.
C21_CompletionOrderIndependent ==
    \A a \in Articles :
        JustReturned(a) =>
            LET r == InDispatchOrder(a)
            IN  /\ conv[a].markdown = r.newMarkdown
                /\ Range(conv[a].images) = Range(r.images)
                /\ Range(conv[a].failures) = Range(r.failures)

\* the step settles fetch i of entry a, so that its completion handler runs
HandlerRuns(a, i) ==
    /\ conv[a].fetches[i].stage # "settled"
    /\ conv'[a].fetches[i].stage = "settled"

\* C22: during the fetches of one article no variable is written by the
\* completion handlers of two fetches: a handler that runs after another one
\* writes neither the counter nor the text that an earlier handler wrote, and
\* adds to images and failures only the entry of its own filename.
C22_HandlersWriteOwnSlotsOnly ==
    [][\A a \in Articles : \A i \in FetchesOf(a) :
          (HandlerRuns(a, i) /\ Settled(a) # {}) =>
              LET c == conv[a]
                  d == conv'[a]
                  own == c.fetches[i].filename
              IN  /\ d.completed = c.completed
                  /\ c.newMarkdown # c.markdown0 => d.newMarkdown = c.newMarkdown
                  /\ \A e \in Range(c.images) : e \in Range(d.images)
                  /\ \A e \in Range(d.images) : e \in Range(c.images) \/ e.key = own
                  /\ SubSeq(d.failures, 1, Len(c.failures)) = c.failures
                  /\ \A n \in (Len(c.failures) + 1)..Len(d.failures) :
                         d.failures[n].filename = own]_vars

\* the positions in the calls of entry a at which a fetch is started
Starts(a) == {n \in 1..Len(conv[a].events) : conv[a].events[n].op = "downloadImage"}

\* the position at which the k-th fetch of entry a is started, 0 for k = 0
StartOf(a, k) ==
    IF k = 0 THEN 0
    ELSE CHOOSE n \in Starts(a) : Cardinality({m \in Starts(a) : m <= n}) = k

\* C23: processMarkdownImages has started the fetch of every image of the
\* article, thumbnail and body images, when it waits for them, so that all
\* `total` fetches are in flight together; and before the fetch of an image is
\* started, progressCallback has reported that image.
C23_AllFetchesStartedBeforeWaiting ==
    \A a \in Articles :
        conv[a].status # "idle" =>
            /\ Cardinality(Starts(a)) = conv[a].total
            /\ Len(conv[a].fetches) = conv[a].total
            /\ Cardinality(InFlight(a)) + Cardinality(Settled(a)) = conv[a].total
            /\ \A k \in FetchesOf(a) :
                   /\ conv[a].events[StartOf(a, k)].url = conv[a].fetches[k].url
                   /\ \E m \in (StartOf(a, k - 1) + 1)..(StartOf(a, k) - 1) :
                          conv[a].events[m] = [op |-> "progressCallback",
                                               url |-> conv[a].fetches[k].url]

\* a thumbnail and a body image whose fetches are both in flight, none of
\* their attempts having completed
C23_Witness ==
    \E a \in Articles :
        /\ conv[a].status = "running"
        /\ conv[a].total >= 2
        /\ InFlight(a) = FetchesOf(a)
        /\ \A i \in FetchesOf(a) : conv[a].fetches[i].attempts = <<>>
        /\ \E i, j \in FetchesOf(a) :
               conv[a].fetches[i].kind = "thumbnail" /\ conv[a].fetches[j].kind = "body"

\* the value of the line `key: "value"` of the front matter of a text
FrontMatterValue(text, key) ==
    LET opening == <<"\n">> \o key \o <<":", " ", "\"">>
        i       == IndexOf(text, opening)
        from    == i + Len(opening)
        closing == IndexFrom(text, <<"\"">>, from)
    IN  IF i = 0 \/ closing = 0 THEN <<>> ELSE SubSeq(text, from, closing - 1)

\* C24: when the thumbnail fetch of an article has succeeded, the thumbnail
\* field of the front matter of the returned Markdown and metadata.thumbnail
\* both hold ./attachments/{the thumbnail's filename}.
C24_FrontMatterThumbnailIsLocal ==
    \A a \in Articles :
        JustReturned(a) =>
            \A i \in FetchesOf(a) :
                LET f == conv[a].fetches[i]
                IN  (f.kind = "thumbnail" /\ f.outcome = "data") =>
                        /\ MetaGet(metadata[conv[a].meta], K_THUMBNAIL) = LocalPath(f.filename)
                        /\ FrontMatterValue(conv[a].markdown, K_THUMBNAIL) = LocalPath(f.filename)

ImagesFor(a, f) == {n \in 1..Len(conv[a].images) : conv[a].images[n].key = f.filename}

\* C25: at the return of processMarkdownImages every image of the article,
\* thumbnail included, is accounted for once: its filename is a key of images
\* or the filename of exactly one failure record, not both and not neither,
\* and the sizes of images and failures add up to total.
C25_EveryImageAccountedOnce ==
    \A a \in Articles :
        conv[a].status = "returned" =>
            /\ Len(conv[a].fetches) = conv[a].total
            /\ Len(conv[a].images) + Len(conv[a].failures) = conv[a].total
            /\ \A i \in FetchesOf(a) :
                   LET f == conv[a].fetches[i]
                   IN  /\ Cardinality(ImagesFor(a, f)) + Cardinality(FailuresFor(a, f)) = 1
                       /\ ImagesFor(a, f) # {} <=> f.outcome = "data"

\* an article returned with one image stored and another one failed
C25_Witness ==
    \E a \in Articles :
        /\ conv[a].status = "returned"
        /\ conv[a].total >= 2
        /\ \E i, j \in FetchesOf(a) :
               /\ conv[a].fetches[i].outcome = "data"
               /\ conv[a].fetches[j].outcome = "null"

\* a run of handleFileUpload has started and has not reached its end
RunInProgress == app.pc \in {"loading", "metadata", "converting"}

\* the file input is rendered and not disabled: an upload can be started
UploadEnabled == app.showUploadPanel /\ ~ app.isProcessing

\* C26: after handleCancel the cancelled run is discarded: while it goes on,
\* no step changes downloadUrl, downloadFailures or processLogs (no processLog
\* event of the run reaches the listener), and no upload can be started
\* beside it.
C26_CancelledRunIsDiscarded ==
    [][(RunInProgress /\ ~ app.isProcessing) =>
          /\ ~ UploadEnabled
          /\ app'.downloadUrl = app.downloadUrl
          /\ app'.downloadFailures = app.downloadFailures
          /\ app'.processLogs = app.processLogs
          /\ logs' = logs]_vars

====
